---- MODULE Spec2Model ----
(***************************************************************************)
(* File-system watcher of native-platform: the command queue that          *)
(* serialises register / unregister / terminate onto the worker thread,    *)
(* the macOS engine (one FSEventStream over all watch points) and the      *)
(* Windows engine (one overlapped directory read per watch point, APCs).   *)
(* The engine is chosen in Init; both engines share the command pipeline.  *)
(***************************************************************************)
EXTENDS Integers, Sequences, FiniteSets, TLC

(***************************************************************************)
(* Bounds and fixed sets of the model.                                     *)
(***************************************************************************)
MaxCmds == 3
MaxFsEvents == 1
MaxTimeouts == 1

Engines == {"mac", "win"}
\* The foreign threads, in the order in which idle ones are picked.
SubmitterSeq == <<"s1", "s2">>
Submitters == {SubmitterSeq[i] : i \in 1..Len(SubmitterSeq)}

\* Paths are sequences of characters.  PathA is a string prefix of PathB
\* without being its parent directory.
PathA == <<"a">>
PathB == <<"a", "b">>
Paths == {PathA, PathB}
ChildName == <<"x">>

RegisterBatches == {<<PathA>>, <<PathB, PathA>>}
UnregisterBatches == {<<PathB, PathA>>}
CommandMenu ==
  {[kind |-> "register", paths |-> b] : b \in RegisterBatches}
    \cup {[kind |-> "unregister", paths |-> b] : b \in UnregisterBatches}
    \cup {[kind |-> "terminate", paths |-> <<>>]}

\* kFSEventStreamEventIdSinceNow, an id no event carries.
kFSEventStreamEventIdSinceNow == -1
\* The character code of '/', compared with prefix.size() in getWatchPointState.
SlashCode == 47
NulChar == "NUL"

VARIABLES
  engine,        \* "mac" or "win"
  wpc,           \* worker thread: "init", "loop", "exiting", "exited", "deadlock"
  stack,         \* worker call stack above the run loop: frames [k, id, rest]
  commands,      \* the command queue (ids into cmds)
  cmds,          \* every command ever submitted, in submission order
  execLog,       \* ids of the commands in the order the worker began them
  events,        \* callbacks made so far: [kind, path, early, late]
  fsBudget,      \* file-system activity still allowed
  regd,          \* paths registered successfully and not unregistered since
  \* macOS engine
  watchPointsMac,                      \* path -> "none" | "NEW" | "HISTORICAL"
  eventStream,                         \* [open, paths, since]
  lastSeenEventId,
  finishedProcessingHistoricalEvents,
  sourceSignalled,                     \* messageSource is signalled
  runLoopStopped,                      \* CFRunLoopStop was called
  macPending,                          \* events the stream has not delivered
  nextEventId,                         \* the id of the next FSEvents event
  \* Windows engine
  watchPoints,   \* path -> index into wps, 0 when absent
  wps,           \* every WatchPoint object ever constructed
  apcQueue,      \* user APCs queued to the worker thread
  terminated,
  isDir,         \* path -> whether the directory exists
  useAfterFree   \* a completion routine ran on a destroyed WatchPoint

macVars == <<watchPointsMac, eventStream, lastSeenEventId,
             finishedProcessingHistoricalEvents, sourceSignalled,
             runLoopStopped, macPending, nextEventId>>
winVars == <<watchPoints, wps, apcQueue, terminated, isDir, useAfterFree>>
vars == <<engine, wpc, stack, commands, cmds, execLog, events, fsBudget,
          regd, macVars, winVars>>

(***************************************************************************)
(* Helpers.                                                                *)
(***************************************************************************)
Range(s) == {s[i] : i \in 1..Len(s)}

StartsWith(path, prefix) ==
  /\ Len(prefix) <= Len(path)
  /\ SubSeq(path, 1, Len(prefix)) = prefix

\* path.at(i), zero based
CharAt(path, i) == IF i + 1 <= Len(path) THEN path[i + 1] ELSE NulChar

Top == stack[Len(stack)]
Pop == SubSeq(stack, 1, Len(stack) - 1)
\* k: "apcs" (inside an alertable SleepEx), "drain" (inside the command loop),
\* "cb" (inside a handler whose callbacks to the host are in progress),
\* "cmd" (inside Command::execute of command id, rest its paths still to do,
\* wp the WatchPoint whose destructor is waiting in SleepEx, 0 when none).
Frame(k, id, rest) == [k |-> k, id |-> id, rest |-> rest, wp |-> 0]
InFrame(k) == \E i \in 1..Len(stack) : stack[i].k = k

\* mtxCommands / commandMutex is held for the whole drain loop.
WorkerHoldsMutex == InFrame("drain")

started == wpc # "init"
Running == wpc \in {"loop", "exiting"}

TerminateReturned ==
  \E c \in 1..Len(cmds) : cmds[c].kind = "terminate" /\ cmds[c].sst = "returned"

Busy(s) ==
  \E c \in 1..Len(cmds) :
    cmds[c].sub = s /\ cmds[c].sst \in {"waiting", "joining"}

\* Foreign threads are interchangeable: the first idle one submits.
FirstIdle(s) ==
  \E i \in 1..Len(SubmitterSeq) :
    /\ SubmitterSeq[i] = s
    /\ ~Busy(s)
    /\ \A j \in 1..(i - 1) : Busy(SubmitterSeq[j])

TerminateSubmitted == \E c \in 1..Len(cmds) : cmds[c].kind = "terminate"
TimeOuts == Cardinality({c \in 1..Len(cmds) : cmds[c].sst = "timeout"})

\* One callback to the host, tagged with the lifecycle phase it was made in.
Callback(kind, path) ==
  [kind |-> kind, path |-> path, early |-> ~started, late |-> TerminateReturned]

IsChange(e) == e.kind \notin {"error"}

(***************************************************************************)
(* Command (generic_fsnotifier.h).                                         *)
(***************************************************************************)
NewCommand(m, s) ==
  [kind |-> m.kind, paths |-> m.paths, sub |-> s,
   cst |-> "queued", sst |-> "waiting",
   failure |-> "none", result |-> "none",
   notifyCount |-> 0, raised |-> "none", missing |-> FALSE]

\* What perform() did inside the try block of Command::execute: err is the
\* exception it threw ("none" when it returned), res the value it returned.
performed(c, err, res) ==
  [cmds EXCEPT ![c].raised = err, ![c].result = res]

\* Faulty variants of Command::execute, to show what C8 and C10 rest on:
\* one that never notifies the waiting submitter, one whose catch clause
\* does not store the exception.
executeWithoutNotify(cm, c) ==
  [cm EXCEPT ![c] =
     [cm[c] EXCEPT !.cst = "done", !.failure = cm[c].raised,
                   !.notifyCount = @ + 1]]

executeDroppingFailure(cm, c) ==
  [cm EXCEPT ![c] =
     [cm[c] EXCEPT !.cst = "done", !.notifyCount = @ + 1,
                   !.sst = IF @ # "waiting" THEN @
                           ELSE IF cm[c].kind = "terminate" THEN "joining"
                           ELSE "ok"]]

\* The rest of Command::execute on the records cm: the catch clause stores
\* the exception in failure, then executed.notify_all() wakes the submitter
\* that is waiting: its wait ends, the failure is rethrown to it, a
\* terminate goes on to join the worker (Server::~Server).
execute(cm, c) ==
  [cm EXCEPT ![c] =
     [cm[c] EXCEPT !.cst = "done",
                   !.failure = cm[c].raised,
                   !.notifyCount = @ + 1,
                   !.sst = IF @ # "waiting" THEN @
                           ELSE IF cm[c].raised # "none" THEN "failed"
                           ELSE IF cm[c].kind = "terminate" THEN "joining"
                           ELSE "ok"]]

(***************************************************************************)
(* macOS engine (apple_fsnotifier.cpp).  The lambdas of registerPaths and  *)
(* unregisterPaths run on the worker without a blocking point, so each is  *)
(* computed as a function of the engine state ms:                          *)
(*   wp, stream, last, fin, pending   the engine's fields                  *)
(*   cb      the callbacks made on the way                                 *)
(*   err     the exception that ended the lambda, "none" otherwise         *)
(*   added, removed, missing          what the loop did, path by path      *)
(***************************************************************************)
\* eventStream == nullptr
NullStream == [open |-> FALSE, paths |-> {}, since |-> 0]

IS_SET(flags, mask) == mask \subseteq flags

IGNORED_FLAGS ==
  {"UserDropped", "KernelDropped", "EventIdsWrapped", "HistoryDone",
   "ItemIsFile", "ItemIsDir", "ItemIsSymlink", "OwnEvent",
   "ItemIsHardlink", "ItemIsLastHardlink", "ItemCloned"}

\* Raw events a started stream can deliver for a watched root: a file is
\* created under it, or the root itself is deleted (the stream is created
\* with kFSEventStreamCreateFlagWatchRoot; such an event carries the id 0).
MacRawMenu(root) ==
  {[path |-> root \o <<"/">> \o ChildName, flags |-> {"ItemCreated", "ItemIsFile"}],
   [path |-> root, flags |-> {"RootChanged"}]}

MacState ==
  [wp |-> watchPointsMac, stream |-> eventStream, last |-> lastSeenEventId,
   fin |-> finishedProcessingHistoricalEvents, pending |-> macPending,
   cb |-> <<>>, err |-> "none", added |-> {}, removed |-> {}, missing |-> FALSE]

\* The prefix test of getWatchPointState as written: the second operand of
\* || reads path.at(prefix.size() == '/'), a character converted to bool.
MatchesPrefix(path, prefix) ==
  /\ StartsWith(path, prefix)
  /\ \/ Len(prefix) = Len(path)
     \/ CharAt(path, IF Len(prefix) = SlashCode THEN 1 ELSE 0) # NulChar

\* order is the iteration order of the watchPoints container.
getWatchPointState(path, wp, order) ==
  LET hits == {i \in 1..Len(order) :
                 wp[order[i]] # "none" /\ MatchesPrefix(path, order[i])}
  IN IF hits = {} THEN "throw"
     ELSE wp[order[CHOOSE i \in hits : \A j \in hits : i <= j]]

\* A faulty variant of handleEvent that reports a failure for a flag set it
\* does not know, to show what C16 rests on.
handleEventUnknownAsError(path, flags) ==
  IF IS_SET(flags, {"MustScanSubDirs"}) THEN Callback("overflow", path)
  ELSE IF IS_SET(flags, {"Mount", "Unmount"}) THEN Callback("INVALIDATED", path)
  ELSE IF IS_SET(flags, {"ItemRenamed"})
       THEN IF IS_SET(flags, {"ItemCreated"}) THEN Callback("REMOVED", path)
            ELSE Callback("CREATED", path)
  ELSE IF IS_SET(flags, {"ItemModified"}) THEN Callback("MODIFIED", path)
  ELSE IF IS_SET(flags, {"ItemRemoved"}) THEN Callback("REMOVED", path)
  ELSE IF IS_SET(flags, {"ItemInodeMetaMod", "ItemFinderInfoMod",
                         "ItemChangeOwner", "ItemXattrMod"})
       THEN Callback("MODIFIED", path)
  ELSE IF IS_SET(flags, {"ItemCreated"}) THEN Callback("CREATED", path)
  ELSE Callback("error", path)

\* Server::handleEvent
handleEvent(path, flags) ==
  IF IS_SET(flags, {"MustScanSubDirs"}) THEN Callback("overflow", path)
  ELSE IF IS_SET(flags, {"Mount", "Unmount"}) THEN Callback("INVALIDATED", path)
  ELSE IF IS_SET(flags, {"ItemRenamed"})
       THEN IF IS_SET(flags, {"ItemCreated"}) THEN Callback("REMOVED", path)
            ELSE Callback("CREATED", path)
  ELSE IF IS_SET(flags, {"ItemModified"}) THEN Callback("MODIFIED", path)
  ELSE IF IS_SET(flags, {"ItemRemoved"}) THEN Callback("REMOVED", path)
  ELSE IF IS_SET(flags, {"ItemInodeMetaMod", "ItemFinderInfoMod",
                         "ItemChangeOwner", "ItemXattrMod"})
       THEN Callback("MODIFIED", path)
  ELSE IF IS_SET(flags, {"ItemCreated"}) THEN Callback("CREATED", path)
  ELSE Callback("unknown", path)

RECURSIVE handleEvents(_, _, _)
handleEvents(evs, ms, order) ==
  IF evs = <<>> THEN ms
  ELSE
    LET e == Head(evs)
        m1 == [ms EXCEPT !.last = e.id]
    IN IF IS_SET(e.flags, {"HistoryDone"})
       THEN handleEvents(Tail(evs),
              [m1 EXCEPT !.wp = [p \in Paths |->
                                   IF ms.wp[p] = "NEW" THEN "HISTORICAL" ELSE ms.wp[p]],
                         !.fin = TRUE],
              order)
       ELSE IF e.id = 0 /\ IS_SET(e.flags, {"RootChanged"})
       THEN handleEvents(Tail(evs),
              [m1 EXCEPT !.cb = Append(@, Callback("INVALIDATED", e.path))], order)
       ELSE IF ~m1.fin /\ getWatchPointState(e.path, m1.wp, order) = "throw"
       THEN \* the exception leaves the loop; reportFailure
            [m1 EXCEPT !.cb = Append(@, Callback("error", e.path))]
       ELSE IF ~m1.fin /\ getWatchPointState(e.path, m1.wp, order) = "NEW"
       THEN handleEvents(Tail(evs), m1, order)
       ELSE IF e.flags \subseteq IGNORED_FLAGS
       THEN handleEvents(Tail(evs), m1, order)
       ELSE handleEvents(Tail(evs),
              [m1 EXCEPT !.cb = Append(@, handleEvent(e.path, e.flags))], order)

\* FSEventStreamFlushSync delivers what the stream still holds, then the
\* stream is stopped, invalidated and released.
closeEventStream(ms, order) ==
  IF ~ms.stream.open THEN ms
  ELSE [handleEvents(ms.pending, ms, order) EXCEPT !.pending = <<>>, !.stream = NullStream]

\* A stream created from an event id replays history and ends it with the
\* HistoryDone sentinel.
openEventStream(ms) ==
  IF \A p \in Paths : ms.wp[p] = "none" THEN ms
  ELSE [ms EXCEPT
          !.fin = (ms.last = kFSEventStreamEventIdSinceNow),
          !.stream = [open |-> TRUE, paths |-> {p \in Paths : ms.wp[p] # "none"},
                      since |-> ms.last],
          !.pending = IF ms.last = kFSEventStreamEventIdSinceNow THEN <<>>
                      ELSE <<[path |-> <<>>, flags |-> {"HistoryDone"}, id |-> ms.last]>>]

RECURSIVE registerLoopMac(_, _)
registerLoopMac(paths, ms) ==
  IF paths = <<>> THEN ms
  ELSE LET path == Head(paths)
       IN IF ms.wp[path] # "none"
          THEN [ms EXCEPT !.err = "Already watching path"]
          ELSE registerLoopMac(Tail(paths),
                 [ms EXCEPT !.wp[path] = IF ms.last = kFSEventStreamEventIdSinceNow
                                         THEN "HISTORICAL" ELSE "NEW",
                            !.added = @ \cup {path}])

registerPathsMac(paths, ms, order) ==
  LET looped == registerLoopMac(paths, closeEventStream(ms, order))
  IN IF looped.err # "none" THEN looped ELSE openEventStream(looped)

RECURSIVE unregisterLoopMac(_, _)
unregisterLoopMac(paths, ms) ==
  IF paths = <<>> THEN ms
  ELSE LET path == Head(paths)
       IN unregisterLoopMac(Tail(paths),
            IF ms.wp[path] = "none"
            THEN [ms EXCEPT !.missing = TRUE]
            ELSE [ms EXCEPT !.wp[path] = "none", !.removed = @ \cup {path}])

\* success is false when some erase() found nothing
unregisterPathsMac(paths, ms, order) ==
  openEventStream(unregisterLoopMac(paths, closeEventStream(ms, order)))

(***************************************************************************)
(* Command pipeline shared by both engines.                                *)
(***************************************************************************)
Orders == {<<PathA, PathB>>, <<PathB, PathA>>}

\* User APCs of the Windows worker: processCommandsCallback, and the
\* completion routine of the read of WatchPoint i.
IoApc(i, err, entries) == [t |-> "io", wp |-> i, err |-> err, entries |-> entries]
CmdApc == [t |-> "cmd", wp |-> 0, err |-> "none", entries |-> <<>>]

\* A faulty variant of queueOnRunLoop that does not signal the source, to
\* show what C9 rests on.
queueWithoutSignal(c) ==
  /\ commands' = Append(commands, c)
  /\ UNCHANGED <<sourceSignalled, apcQueue>>

\* Server::queueOnRunLoop: push under commandMutex, signal the source, wake
\* the run loop.
queueOnRunLoop(c) ==
  /\ commands' = Append(commands, c)
  /\ sourceSignalled' = TRUE
  /\ UNCHANGED apcQueue

\* Server::processCommandsOnThread: QueueUserAPC(processCommandsCallback); the
\* call fails when the thread has exited.
processCommandsOnThread ==
  apcQueue' = IF wpc = "exited" THEN apcQueue ELSE Append(apcQueue, CmdApc)

\* AbstractServer::executeOnThread up to the wait
executeOnThread(c) ==
  /\ commands' = Append(commands, c)
  /\ processCommandsOnThread
  /\ UNCHANGED sourceSignalled

\* start_watcher: the worker thread reaches its run loop and notifyStarted
\* lets the constructor return.
StartWatcher ==
  /\ wpc = "init"
  /\ wpc' = "loop"
  /\ UNCHANGED <<engine, stack, commands, cmds, execLog, events, fsBudget,
                 regd, macVars, winVars>>

\* A foreign thread submits a command and starts to wait for it.
Submit(s, m) ==
  /\ started
  /\ ~TerminateReturned
  /\ TerminateSubmitted => m.kind = "terminate"
  /\ FirstIdle(s)
  /\ Len(cmds) < MaxCmds
  /\ ~WorkerHoldsMutex
  /\ cmds' = Append(cmds, NewCommand(m, s))
  /\ IF engine = "mac" THEN queueOnRunLoop(Len(cmds) + 1)
                       ELSE executeOnThread(Len(cmds) + 1)
  /\ UNCHANGED <<engine, wpc, stack, execLog, events, fsBudget, regd,
                 watchPointsMac, eventStream, lastSeenEventId,
                 finishedProcessingHistoricalEvents, runLoopStopped, macPending,
                 nextEventId, watchPoints, wps, terminated, isDir, useAfterFree>>

OnlyCmds ==
  UNCHANGED <<engine, wpc, stack, commands, execLog, events, fsBudget, regd,
              macVars, winVars>>

\* The wait ends because the timeout elapsed; the command stays queued.
TimeOut(c) ==
  /\ cmds[c].sst = "waiting"
  /\ TimeOuts < MaxTimeouts
  /\ cmds' = [cmds EXCEPT ![c].sst = "timeout"]
  /\ OnlyCmds

\* A faulty variant of the destructor that does not join the worker, to show
\* what C5 rests on.
ReturnWithoutJoin(c) ==
  /\ cmds[c].sst = "joining"
  /\ cmds' = [cmds EXCEPT ![c].sst = "returned"]
  /\ OnlyCmds

\* watcherThread.join() of Server::~Server
Join(c) ==
  /\ cmds[c].sst = "joining"
  /\ wpc = "exited"
  /\ cmds' = [cmds EXCEPT ![c].sst = "returned"]
  /\ OnlyCmds

\* A faulty variant of the loop that takes the back of the queue, to show
\* what C7 rests on.
LastCommand == commands[Len(commands)]

\* Server::handleCommands / AbstractServer::processCommands: the loop takes
\* the front of the queue and executes it.
NextCommand == Head(commands)
RemainingCommands == Tail(commands)

\* The loop on top of the stack stk (its top is the drain frame), with the
\* command records cm: the front of the queue is taken and its execution
\* begins, or the queue is empty and the loop ends, releasing the mutex.
Drain(stk, cm) ==
  IF commands = <<>>
  THEN /\ stack' = SubSeq(stk, 1, Len(stk) - 1)
       /\ cmds' = cm
       /\ UNCHANGED <<commands, execLog>>
  ELSE /\ stack' = Append(stk, Frame("cmd", NextCommand, cm[NextCommand].paths))
       /\ cmds' = [cm EXCEPT ![NextCommand].cst = "running"]
       /\ commands' = RemainingCommands
       /\ execLog' = Append(execLog, NextCommand)

(***************************************************************************)
(* macOS worker.                                                           *)
(***************************************************************************)
SetMac(r) ==
  /\ watchPointsMac' = r.wp
  /\ eventStream' = r.stream
  /\ lastSeenEventId' = r.last
  /\ finishedProcessingHistoricalEvents' = r.fin
  /\ macPending' = r.pending
  /\ events' = events \o r.cb

\* acceptTrigger: the run loop performs the signalled source
MacAcceptTrigger ==
  /\ engine = "mac" /\ wpc = "loop" /\ stack = <<>>
  /\ sourceSignalled /\ ~runLoopStopped
  /\ sourceSignalled' = FALSE
  /\ Drain(<<Frame("drain", 0, <<>>)>>, cmds)
  /\ UNCHANGED <<engine, wpc, events, fsBudget, regd,
                 watchPointsMac, eventStream, lastSeenEventId,
                 finishedProcessingHistoricalEvents, runLoopStopped, macPending,
                 nextEventId, winVars>>

\* The body of the command: the lambda of registerPaths or of
\* unregisterPaths, or Server::shutdownRunLoop for a terminate.
performMac(c, order) ==
  IF cmds[c].kind = "register" THEN registerPathsMac(cmds[c].paths, MacState, order)
  ELSE IF cmds[c].kind = "unregister"
    THEN unregisterPathsMac(cmds[c].paths, MacState, order)
  ELSE MacState

\* What the lambda returned
resultMac(c, r) ==
  IF cmds[c].kind = "register" THEN (IF r.err = "none" THEN "true" ELSE "none")
  ELSE IF cmds[c].kind = "unregister" THEN (IF r.missing THEN "false" ELSE "true")
  ELSE "none"

\* The worker executes the command it took: perform, the catch clause, the
\* notification; then the loop of handleCommands goes on.
MacPerform ==
  /\ engine = "mac" /\ Running /\ stack # <<>> /\ Top.k = "cmd"
  /\ \E order \in Orders :
       LET r == performMac(Top.id, order)
       IN /\ SetMac(r)
          /\ regd' = (regd \cup r.added) \ r.removed
          /\ Drain(Pop, execute([performed(Top.id, r.err, resultMac(Top.id, r))
                                   EXCEPT ![Top.id].missing = r.missing], Top.id))
  /\ runLoopStopped' = (runLoopStopped \/ cmds[Top.id].kind = "terminate")
  /\ UNCHANGED <<engine, wpc, fsBudget, sourceSignalled, nextEventId, winVars>>

\* The frame of a handler whose callbacks to the host are in progress.
CallbackFrame == Frame("cb", 0, <<>>)

\* handleEventsCallback on the run loop
MacDeliver ==
  /\ engine = "mac" /\ wpc = "loop" /\ stack = <<>> /\ ~runLoopStopped
  /\ eventStream.open /\ macPending # <<>>
  /\ \E order \in Orders :
       LET r == [handleEvents(macPending, MacState, order) EXCEPT !.pending = <<>>]
       IN /\ SetMac(r)
          /\ stack' = IF r.cb # <<>> THEN <<CallbackFrame>> ELSE stack
  /\ UNCHANGED <<engine, wpc, commands, cmds, execLog, fsBudget, regd,
                 sourceSignalled, runLoopStopped, nextEventId, winVars>>

\* The callbacks of the handler return: handleEventsCallback (macOS) or the
\* completion routine (Windows) ends, the worker is back where it waited.
CallbackReturn ==
  /\ stack # <<>> /\ Top.k = "cb"
  /\ stack' = Pop
  /\ UNCHANGED <<engine, wpc, commands, cmds, execLog, events, fsBudget, regd,
                 macVars, winVars>>

\* The file system changes under a root of the open stream.
MacFsEvent(root, raw) ==
  /\ engine = "mac" /\ wpc # "exited" /\ fsBudget > 0
  /\ eventStream.open /\ root \in eventStream.paths
  /\ isDir[root]
  /\ LET rootChanged == IS_SET(raw.flags, {"RootChanged"})
     IN /\ macPending' = Append(macPending,
                            [path |-> raw.path, flags |-> raw.flags,
                             id |-> IF rootChanged THEN 0 ELSE nextEventId])
        /\ nextEventId' = IF rootChanged THEN nextEventId ELSE nextEventId + 1
        /\ isDir' = IF rootChanged THEN [isDir EXCEPT ![root] = FALSE] ELSE isDir
  /\ fsBudget' = fsBudget - 1
  /\ UNCHANGED <<engine, wpc, stack, commands, cmds, execLog, events, regd,
                 watchPointsMac, eventStream, lastSeenEventId,
                 finishedProcessingHistoricalEvents, sourceSignalled,
                 runLoopStopped, watchPoints, wps, apcQueue, terminated,
                 useAfterFree>>

\* A stream created from an event id replays an event that happened under
\* one of its roots after that id: it is delivered before the HistoryDone
\* sentinel, which comes after everything replayed.
MacReplayedEvent(root, raw) ==
  /\ engine = "mac" /\ wpc # "exited" /\ fsBudget > 0
  /\ eventStream.open /\ root \in eventStream.paths
  /\ isDir[root]
  /\ ~IS_SET(raw.flags, {"RootChanged"})
  /\ macPending # <<>>
  /\ IS_SET(macPending[Len(macPending)].flags, {"HistoryDone"})
  /\ macPending' =
       SubSeq(macPending, 1, Len(macPending) - 1)
         \o <<[path |-> raw.path, flags |-> raw.flags, id |-> nextEventId],
              [macPending[Len(macPending)] EXCEPT !.id = nextEventId]>>
  /\ nextEventId' = nextEventId + 1
  /\ fsBudget' = fsBudget - 1
  /\ UNCHANGED <<engine, wpc, stack, commands, cmds, execLog, events, regd,
                 watchPointsMac, eventStream, lastSeenEventId,
                 finishedProcessingHistoricalEvents, sourceSignalled,
                 runLoopStopped, winVars>>

\* Server::runLoop after CFRunLoopRun returned
MacRunLoopExit ==
  /\ engine = "mac" /\ wpc = "loop" /\ stack = <<>> /\ runLoopStopped
  /\ \E order \in Orders : SetMac(closeEventStream(MacState, order))
  /\ wpc' = "exited"
  /\ UNCHANGED <<engine, stack, commands, cmds, execLog, fsBudget, regd,
                 sourceSignalled, runLoopStopped, nextEventId, winVars>>

(***************************************************************************)
(* Windows engine (win_fsnotifier.cpp).  A WatchPoint object is            *)
(*   [path, user, status, io, handle, alive]                               *)
(* io is the kernel's side of the overlapped read: "none", "pending" or    *)
(* "cancelling" (CancelIoEx accepted, completion not yet queued).          *)
(* An APC is [t, wp, err, entries]: t = "cmd" is processCommandsCallback,  *)
(* t = "io" the completion routine of object wp; bytesTransferred is 0     *)
(* exactly when entries is empty.                                          *)
(***************************************************************************)
WinState ==
  [map |-> watchPoints, wps |-> wps, cb |-> <<>>, err |-> "none", added |-> {}]

\* Buffers a successful completion can carry.
WinBufferMenu == {<<[action |-> "FILE_ACTION_ADDED", name |-> ChildName]>>}

\* WatchPoint::isValidDirectory
isValidDirectory(path) == isDir[path]

\* WatchPoint::listen: "SUCCESS", "DELETED" or "throw"; ReadDirectoryChangesW
\* succeeds on an open handle of an existing directory and is refused with
\* ERROR_ACCESS_DENIED once the directory is gone.
listenResult(w) ==
  IF w.handle = "open" /\ isDir[w.path] THEN "SUCCESS"
  ELSE IF w.handle = "open" /\ ~isValidDirectory(w.path) THEN "DELETED"
  ELSE "throw"

\* A faulty variant of listen that marks the watch point LISTENING without a
\* read in flight, to show what C20 rests on.
listenWithoutRead(w) ==
  IF listenResult(w) = "SUCCESS"
  THEN [w EXCEPT !.status = "LISTENING"]
  ELSE [w EXCEPT !.status = "FINISHED"]

listen(w) ==
  IF listenResult(w) = "SUCCESS"
  THEN [w EXCEPT !.status = "LISTENING", !.io = "pending"]
  ELSE [w EXCEPT !.status = "FINISHED"]

\* WatchPoint::cancel: CancelIoEx finds the read only while it is pending.
cancelResult(w) == w.status = "LISTENING" /\ w.io = "pending"

\* A faulty variant of cancel that does not look at the status, to show
\* what C19 rests on.
cancelWhateverStatus(w) ==
  IF w.io = "pending"
  THEN [w EXCEPT !.status = "CANCELLED", !.io = "cancelling"]
  ELSE [w EXCEPT !.status = "CANCELLED"]

cancel(w) ==
  IF w.status = "LISTENING"
  THEN IF w.io = "pending"
       THEN [w EXCEPT !.status = "CANCELLED", !.io = "cancelling"]
       ELSE [w EXCEPT !.status = "FINISHED"]
  ELSE w

\* Windows paths: the separator, the drive letters and the long-path
\* prefixes \\?\ and \\?\UNC\ as sequences of characters.
BackSlash == "\\"
DriveLetters ==
  {"a", "b", "c", "d", "e", "f", "g", "h", "i", "j", "k", "l", "m",
   "n", "o", "p", "q", "r", "s", "t", "u", "v", "w", "x", "y", "z",
   "A", "B", "C", "D", "E", "F", "G", "H", "I", "J", "K", "L", "M",
   "N", "O", "P", "Q", "R", "S", "T", "U", "V", "W", "X", "Y", "Z"}
LongPathPrefix == <<BackSlash, BackSlash, "?", BackSlash>>
UncLongPathPrefix == <<BackSlash, BackSlash, "?", BackSlash, "U", "N", "C", BackSlash>>
\* The length up to which convertToLongPathIfNeeded leaves a path alone.
MaxShortPathLength == 240

isAbsoluteLocalPath(path) ==
  /\ Len(path) >= 3
  /\ path[1] \in DriveLetters /\ path[2] = ":" /\ path[3] = BackSlash

isAbsoluteUncPath(path) ==
  /\ Len(path) >= 3
  /\ path[1] = BackSlash /\ path[2] = BackSlash

isLongPath(path) == Len(path) >= 4 /\ SubSeq(path, 1, 4) = LongPathPrefix

isUncLongPath(path) == Len(path) >= 8 /\ SubSeq(path, 1, 8) = UncLongPathPrefix

convertToLongPathIfNeeded(path) ==
  IF Len(path) <= MaxShortPathLength THEN path
  ELSE IF isLongPath(path) THEN path
  ELSE IF isAbsoluteLocalPath(path) THEN LongPathPrefix \o path
  ELSE IF isAbsoluteUncPath(path)
    THEN UncLongPathPrefix \o SubSeq(path, 3, Len(path))
  ELSE path

\* Server::handleEvent, the removal of the long-path prefix from the
\* changed path
removeLongPathPrefix(changedPath) ==
  IF isLongPath(changedPath)
  THEN IF isUncLongPath(changedPath)
       THEN <<BackSlash, BackSlash>> \o SubSeq(changedPath, 9, Len(changedPath))
       ELSE SubSeq(changedPath, 5, Len(changedPath))
  ELSE changedPath

\* A faulty variant of Server::handleEvent that reports the new name of a
\* rename as a modification, to show what C17 rests on.
handleEventWinRenameAsModified(path, info) ==
  LET changedPath ==
        removeLongPathPrefix(IF info.name = <<>> THEN path
                             ELSE path \o <<BackSlash>> \o info.name)
  IN Callback(
       IF info.action = "FILE_ACTION_ADDED" THEN "CREATED"
       ELSE IF info.action \in {"FILE_ACTION_REMOVED", "FILE_ACTION_RENAMED_OLD_NAME"}
         THEN "REMOVED"
       ELSE IF info.action \in {"FILE_ACTION_MODIFIED", "FILE_ACTION_RENAMED_NEW_NAME"}
         THEN "MODIFIED"
       ELSE "UNKNOWN",
       changedPath)

\* Server::handleEvent: the changed path and the kind of one buffer entry
handleEventWin(path, info) ==
  LET changedPath ==
        removeLongPathPrefix(IF info.name = <<>> THEN path
                             ELSE path \o <<BackSlash>> \o info.name)
  IN Callback(
       IF info.action \in {"FILE_ACTION_ADDED", "FILE_ACTION_RENAMED_NEW_NAME"}
         THEN "CREATED"
       ELSE IF info.action \in {"FILE_ACTION_REMOVED", "FILE_ACTION_RENAMED_OLD_NAME"}
         THEN "REMOVED"
       ELSE IF info.action = "FILE_ACTION_MODIFIED" THEN "MODIFIED"
       ELSE "UNKNOWN",
       changedPath)

\* A faulty variant of Server::handleEvents that arms the read again after
\* an overflow, to show what C22 rests on.
handleEventsWinRearmingAfterOverflow(w, err, entries) ==
  LET removed == IF err # "SUCCESS" THEN <<Callback("REMOVED", w.path)>> ELSE <<>>
  IN IF err # "SUCCESS" /\ ~(err = "ACCESS_DENIED" /\ ~isValidDirectory(w.path))
     THEN [w |-> w, cb |-> <<Callback("error", w.path)>>]
     ELSE IF terminated
     THEN [w |-> w, cb |-> removed]
     ELSE [w |-> listen(w),
           cb |-> removed
                  \o (IF entries = <<>> THEN <<Callback("INVALIDATED", w.path)>>
                      ELSE [i \in 1..Len(entries) |-> handleEventWin(w.path, entries[i])])
                  \o (IF listenResult(w) = "DELETED"
                        THEN <<Callback("REMOVED", w.path)>>
                      ELSE IF listenResult(w) = "throw"
                        THEN <<Callback("error", w.path)>>
                      ELSE <<>>)]

\* Server::handleEvents for a completion of w (already NOT_LISTENING): the
\* object afterwards and the callbacks made, [w, cb].
handleEventsWin(w, err, entries) ==
  LET removed == IF err # "SUCCESS" THEN <<Callback("REMOVED", w.path)>> ELSE <<>>
  IN IF err # "SUCCESS" /\ ~(err = "ACCESS_DENIED" /\ ~isValidDirectory(w.path))
     THEN [w |-> w, cb |-> <<Callback("error", w.path)>>]
     ELSE IF terminated
     THEN [w |-> w, cb |-> removed]
     ELSE IF entries = <<>>
     THEN [w |-> [w EXCEPT !.status = "FINISHED"],
           cb |-> Append(removed, Callback("INVALIDATED", w.path))]
     ELSE [w |-> listen(w),
           cb |-> removed
                  \o [i \in 1..Len(entries) |-> handleEventWin(w.path, entries[i])]
                  \o (IF listenResult(w) = "DELETED"
                        THEN <<Callback("REMOVED", w.path)>>
                      ELSE IF listenResult(w) = "throw"
                        THEN <<Callback("error", w.path)>>
                      ELSE <<>>)]

\* WatchPoint::handleEventsInBuffer
handleEventsInBuffer(w, err, entries) ==
  IF err = "ABORTED"
  THEN [w |-> [w EXCEPT !.handle = "closed", !.status = "FINISHED"], cb |-> <<>>]
  ELSE IF w.status # "LISTENING"
  THEN [w |-> w, cb |-> <<>>]
  ELSE handleEventsWin([w EXCEPT !.status = "NOT_LISTENING"], err, entries)

\* Server::registerPath with the WatchPoint constructor.  The map and the
\* WatchPoint hold the converted path; user keeps the path as it was given.
registerPath(path, ws) ==
  LET longPath == convertToLongPathIfNeeded(path)
      old == ws.map[longPath]
      n == Len(ws.wps) + 1
      fresh == [path |-> longPath, user |-> path, status |-> "NOT_LISTENING",
                io |-> "none", handle |-> "open", alive |-> TRUE]
      erased == IF old = 0 THEN ws
                ELSE [ws EXCEPT !.map[longPath] = 0,
                                !.wps[old] = [cancel(@) EXCEPT !.alive = FALSE]]
  IN IF old # 0 /\ ws.wps[old].status # "FINISHED"
     THEN [ws EXCEPT !.err = "Already watching path"]
     ELSE IF ~isDir[longPath]
     THEN [erased EXCEPT !.err = "Couldn't add watch"]
     ELSE IF listenResult(fresh) # "SUCCESS"
     THEN [erased EXCEPT !.wps = Append(@, [listen(fresh) EXCEPT !.alive = FALSE]),
                         !.err = "Couldn't start watching"]
     ELSE [erased EXCEPT !.wps = Append(@, listen(fresh)),
                         !.map[longPath] = n,
                         !.added = @ \cup {path}]

\* AbstractServer::registerPaths: registerPath for each path, in order
RECURSIVE registerPaths(_, _)
registerPaths(paths, ws) ==
  IF paths = <<>> \/ ws.err # "none" THEN ws
  ELSE registerPaths(Tail(paths), registerPath(Head(paths), ws))

(***************************************************************************)
(* Windows worker.                                                         *)
(***************************************************************************)
WinOthers ==
  UNCHANGED <<engine, commands, execLog, fsBudget, macVars, isDir>>

SetTop(f) == [stack EXCEPT ![Len(stack)] = f]

\* A faulty variant of the alertable wait that also dispatches APCs while a
\* callback is in progress, to show what C18 rests on.
InSleepExOrCallback ==
  \/ stack # <<>> /\ Top.k \in {"apcs", "cb"}
  \/ stack = <<>> /\ wpc = "loop" /\ ~terminated

\* The worker is inside an alertable SleepEx: the one of a destructor or of
\* the end of runLoop (an "apcs" frame), or SleepEx(INFINITE, true) of the
\* loop of runLoop, which returns only after it ran the queued APCs.
InSleepEx ==
  \/ stack # <<>> /\ Top.k = "apcs"
  \/ stack = <<>> /\ wpc = "loop" /\ ~terminated
SleepStack == IF stack = <<>> THEN <<Frame("apcs", 0, <<>>)>> ELSE stack

\* processCommandsCallback.  Inside a drain the thread already owns
\* mtxCommands, a std::mutex: locking it again is undefined, the call either
\* goes on into the loop or never returns.
WinApcCommand ==
  /\ engine = "win" /\ Running /\ InSleepEx
  /\ apcQueue # <<>> /\ Head(apcQueue).t = "cmd"
  /\ apcQueue' = Tail(apcQueue)
  /\ \/ /\ Drain(Append(SleepStack, Frame("drain", 0, <<>>)), cmds)
        /\ wpc' = wpc
     \/ /\ WorkerHoldsMutex
        /\ wpc' = "deadlock"
        /\ UNCHANGED <<stack, cmds, commands, execLog>>
  /\ UNCHANGED <<engine, fsBudget, macVars, isDir>>
  /\ UNCHANGED <<events, regd, watchPoints, wps, terminated, useAfterFree>>

\* handleEventCallback.  On a destroyed WatchPoint the routine reads freed
\* memory: it finds the object's last contents or does nothing.
WinApcCompletion ==
  /\ engine = "win" /\ Running /\ InSleepEx
  /\ apcQueue # <<>> /\ Head(apcQueue).t = "io"
  /\ apcQueue' = Tail(apcQueue)
  /\ LET a == Head(apcQueue)
         r == handleEventsInBuffer(wps[a.wp], a.err, a.entries)
     IN /\ useAfterFree' = (useAfterFree \/ ~wps[a.wp].alive)
        /\ \/ /\ wps' = [wps EXCEPT ![a.wp] = r.w]
              /\ events' = events \o r.cb
              /\ stack' = IF r.cb # <<>> THEN Append(SleepStack, CallbackFrame)
                          ELSE SleepStack
           \/ /\ ~wps[a.wp].alive
              /\ stack' = SleepStack
              /\ UNCHANGED <<wps, events>>
  /\ UNCHANGED <<wpc, cmds, regd, watchPoints, terminated>>
  /\ WinOthers

\* SleepEx returns; a destructor that waited in it ends and the object is freed
WinApcReturn ==
  /\ engine = "win" /\ Running /\ stack # <<>> /\ Top.k = "apcs"
  /\ apcQueue = <<>>
  /\ IF Len(stack) > 1 /\ stack[Len(stack) - 1].wp # 0
     THEN /\ wps' = [wps EXCEPT ![stack[Len(stack) - 1].wp].alive = FALSE]
          /\ stack' = [Pop EXCEPT ![Len(stack) - 1].wp = 0]
     ELSE /\ wps' = wps
          /\ stack' = Pop
  /\ UNCHANGED <<wpc, cmds, events, regd, watchPoints, apcQueue, terminated,
                 useAfterFree>>
  /\ WinOthers

\* RegisterPathsCommand::perform inside Command::execute
WinRegister ==
  /\ engine = "win" /\ Running /\ stack # <<>> /\ Top.k = "cmd"
  /\ cmds[Top.id].kind = "register"
  /\ LET r == registerPaths(cmds[Top.id].paths, WinState)
     IN /\ watchPoints' = r.map
        /\ wps' = r.wps
        /\ regd' = regd \cup r.added
        /\ Drain(Pop, execute(performed(Top.id, r.err, "none"), Top.id))
  /\ UNCHANGED <<wpc, events, apcQueue, terminated, useAfterFree>>
  /\ UNCHANGED <<engine, fsBudget, macVars, isDir>>

\* A faulty variant of terminate that refuses to run twice, to show what C12
\* rests on.
WinTerminateOnce ==
  /\ engine = "win" /\ Running /\ stack # <<>> /\ Top.k = "cmd"
  /\ cmds[Top.id].kind = "terminate"
  /\ terminated' = TRUE
  /\ Drain(Pop, execute(performed(Top.id,
                                  IF terminated THEN "Already terminated" ELSE "none",
                                  "none"), Top.id))
  /\ UNCHANGED <<wpc, events, regd, watchPoints, wps, apcQueue, useAfterFree>>
  /\ UNCHANGED <<engine, fsBudget, macVars, isDir>>

\* TerminateCommand::perform: Server::terminate
WinTerminate ==
  /\ engine = "win" /\ Running /\ stack # <<>> /\ Top.k = "cmd"
  /\ cmds[Top.id].kind = "terminate"
  /\ terminated' = TRUE
  /\ Drain(Pop, execute(performed(Top.id, "none", "none"), Top.id))
  /\ UNCHANGED <<wpc, events, regd, watchPoints, wps, apcQueue, useAfterFree>>
  /\ UNCHANGED <<engine, fsBudget, macVars, isDir>>

\* Server::unregisterPath for the next path of the command: erase() unlinks
\* the entry and runs WatchPoint::~WatchPoint, which waits alertably when
\* cancel() returned true.
WinUnregisterPath ==
  /\ engine = "win" /\ Running /\ stack # <<>> /\ Top.k = "cmd"
  /\ cmds[Top.id].kind = "unregister"
  /\ Top.rest # <<>> /\ Top.wp = 0
  /\ LET path == Head(Top.rest)
         longPath == convertToLongPathIfNeeded(path)
         i == watchPoints[longPath]
         next == [Top EXCEPT !.rest = Tail(@)]
     IN IF i = 0
        THEN /\ cmds' = [cmds EXCEPT ![Top.id].missing = TRUE]
             /\ stack' = SetTop(next)
             /\ UNCHANGED <<watchPoints, wps, regd>>
        ELSE /\ watchPoints' = [watchPoints EXCEPT ![longPath] = 0]
             /\ regd' = regd \ {path}
             /\ cmds' = cmds
             /\ IF cancelResult(wps[i])
                THEN /\ wps' = [wps EXCEPT ![i] = cancel(@)]
                     /\ stack' = Append(SetTop([next EXCEPT !.wp = i]),
                                        Frame("apcs", 0, <<>>))
                ELSE /\ wps' = [wps EXCEPT ![i] = [cancel(@) EXCEPT !.alive = FALSE]]
                     /\ stack' = SetTop(next)
  /\ UNCHANGED <<wpc, events, apcQueue, terminated, useAfterFree>>
  /\ WinOthers

\* UnregisterPathsCommand::perform returns (nothing: unregisterPaths is void)
WinUnregisterDone ==
  /\ engine = "win" /\ Running /\ stack # <<>> /\ Top.k = "cmd"
  /\ cmds[Top.id].kind = "unregister"
  /\ Top.rest = <<>> /\ Top.wp = 0
  /\ Drain(Pop, execute(performed(Top.id, "none", "none"), Top.id))
  /\ UNCHANGED <<wpc, events, regd, watchPoints, wps, apcQueue, terminated,
                 useAfterFree>>
  /\ UNCHANGED <<engine, fsBudget, macVars, isDir>>

\* Server::runLoop after the loop: cancel what still listens, one alertable
\* wait when something is pending
WinRunLoopExit ==
  /\ engine = "win" /\ wpc = "loop" /\ stack = <<>> /\ terminated
  /\ LET inMap == {watchPoints[p] : p \in DOMAIN watchPoints} \ {0}
         pendingWatchPoints ==
           {i \in inMap : cancelResult(wps[i]) \/ wps[i].status = "CANCELLED"}
     IN /\ wps' = [i \in 1..Len(wps) |-> IF i \in inMap THEN cancel(wps[i]) ELSE wps[i]]
        /\ stack' = IF pendingWatchPoints # {} THEN <<Frame("apcs", 0, <<>>)>> ELSE <<>>
  /\ wpc' = "exiting"
  /\ UNCHANGED <<cmds, events, regd, watchPoints, apcQueue, terminated, useAfterFree>>
  /\ WinOthers

WinThreadExit ==
  /\ engine = "win" /\ wpc = "exiting" /\ stack = <<>>
  /\ wpc' = "exited"
  /\ UNCHANGED <<stack, cmds, events, regd, winVars>>
  /\ UNCHANGED <<engine, commands, execLog, fsBudget, macVars>>

(***************************************************************************)
(* The kernel and the file system on Windows.                              *)
(***************************************************************************)
QueueApc(a) == IF wpc = "exited" THEN apcQueue ELSE Append(apcQueue, a)

EnvOthers ==
  UNCHANGED <<engine, wpc, stack, commands, cmds, execLog, events, regd,
              macVars, watchPoints, terminated, useAfterFree>>

\* A pending read completes: with changes in the buffer, or with none
\* because the buffer overflowed.
WinFsChange(i, entries) ==
  /\ engine = "win" /\ fsBudget > 0
  /\ wps[i].io = "pending"
  /\ wps' = [wps EXCEPT ![i].io = "none"]
  /\ apcQueue' = QueueApc(IoApc(i, "SUCCESS", entries))
  /\ fsBudget' = fsBudget - 1
  /\ UNCHANGED isDir
  /\ EnvOthers

\* A directory is deleted: the read pending on it completes with
\* ERROR_ACCESS_DENIED.
WinFsDelete(path) ==
  /\ engine = "win" /\ fsBudget > 0
  /\ isDir[path]
  /\ isDir' = [isDir EXCEPT ![path] = FALSE]
  /\ LET hit == {i \in 1..Len(wps) : wps[i].path = path /\ wps[i].io = "pending"}
     IN /\ wps' = [i \in 1..Len(wps) |->
                     IF i \in hit THEN [wps[i] EXCEPT !.io = "none"] ELSE wps[i]]
        /\ apcQueue' = IF hit = {} THEN apcQueue
                       ELSE QueueApc(IoApc(CHOOSE i \in hit : TRUE, "ACCESS_DENIED", <<>>))
  /\ fsBudget' = fsBudget - 1
  /\ EnvOthers

\* A pending read fails: it completes with an error code other than
\* ERROR_OPERATION_ABORTED while the directory is still there.  A read that
\* failed is not armed again, so each watch point fails at most once.
WinFsError(i) ==
  /\ engine = "win"
  /\ wps[i].io = "pending"
  /\ wps' = [wps EXCEPT ![i].io = "none"]
  /\ apcQueue' = QueueApc(IoApc(i, "IO_ERROR", <<>>))
  /\ UNCHANGED <<fsBudget, isDir>>
  /\ EnvOthers

\* The kernel completes a cancelled read with ERROR_OPERATION_ABORTED.
KernelAbort(i) ==
  /\ engine = "win"
  /\ wps[i].io = "cancelling"
  /\ wps' = [wps EXCEPT ![i].io = "none"]
  /\ apcQueue' = QueueApc(IoApc(i, "ABORTED", <<>>))
  /\ UNCHANGED <<fsBudget, isDir>>
  /\ EnvOthers

(***************************************************************************)
(* Specification.                                                          *)
(***************************************************************************)
Init ==
  /\ engine \in Engines
  /\ wpc = "init"
  /\ stack = <<>>
  /\ commands = <<>>
  /\ cmds = <<>>
  /\ execLog = <<>>
  /\ events = <<>>
  /\ fsBudget = MaxFsEvents
  /\ regd = {}
  /\ watchPointsMac = [p \in Paths |-> "none"]
  /\ eventStream = NullStream
  /\ lastSeenEventId = kFSEventStreamEventIdSinceNow
  /\ finishedProcessingHistoricalEvents = FALSE
  /\ sourceSignalled = FALSE
  /\ runLoopStopped = FALSE
  /\ macPending = <<>>
  /\ nextEventId = 1
  /\ watchPoints = [p \in Paths |-> 0]
  /\ wps = <<>>
  /\ apcQueue = <<>>
  /\ terminated = FALSE
  /\ isDir = [p \in Paths |-> TRUE]
  /\ useAfterFree = FALSE

Next ==
  \/ StartWatcher
  \/ \E s \in Submitters, m \in CommandMenu : Submit(s, m)
  \/ \E c \in 1..Len(cmds) : TimeOut(c)
  \/ \E c \in 1..Len(cmds) : Join(c)
  \/ MacAcceptTrigger
  \/ MacPerform
  \/ MacDeliver
  \/ CallbackReturn
  \/ \E root \in Paths : \E raw \in MacRawMenu(root) : MacFsEvent(root, raw)
  \/ MacRunLoopExit
  \/ WinApcCommand
  \/ WinApcCompletion
  \/ WinApcReturn
  \/ WinRegister
  \/ WinTerminate
  \/ WinUnregisterPath
  \/ WinUnregisterDone
  \/ WinRunLoopExit
  \/ WinThreadExit
  \/ \E i \in 1..Len(wps) : \E entries \in WinBufferMenu \cup {<<>>} : WinFsChange(i, entries)
  \/ \E path \in Paths : WinFsDelete(path)
  \/ \E i \in 1..Len(wps) : KernelAbort(i)

Spec == Init /\ [][Next]_vars

\* The steps of the worker thread.  The thread is scheduled fairly: a step
\* it can take is taken.
Worker ==
  \/ MacAcceptTrigger \/ MacPerform \/ MacDeliver \/ MacRunLoopExit
  \/ CallbackReturn
  \/ WinApcCommand \/ WinApcCompletion \/ WinApcReturn
  \/ WinRegister \/ WinTerminate \/ WinUnregisterPath \/ WinUnregisterDone
  \/ WinRunLoopExit \/ WinThreadExit

SpecLive == Init /\ [][Next]_vars /\ WF_vars(Worker)

(***************************************************************************)
(* Watch-point bookkeeping (C1 - C4).                                      *)
(***************************************************************************)
\* The path has an entry in the engine's watchPoints map.
InMap(p) ==
  IF engine = "mac" THEN watchPointsMac[p] # "none" ELSE watchPoints[p] # 0

\* What the map holds for the path: on Windows which WatchPoint object.
MapEntry(p) ==
  IF engine = "mac" THEN watchPointsMac[p] # "none" ELSE watchPoints[p]

\* The kernel subscription of the path is active: the open event stream
\* contains it (macOS), its directory read is pending (Windows).
Subscribed(p) ==
  IF engine = "mac" THEN eventStream.open /\ p \in eventStream.paths
  ELSE watchPoints[p] # 0 /\ wps[watchPoints[p]].io = "pending"

\* This step ends the execution of command c.
Completes(c) == cmds[c].cst # "done" /\ cmds'[c].cst = "done"

\* C1: as long as no terminate was executed, the paths that have a watch
\* point in the map are exactly the paths registered successfully and not
\* unregistered afterwards.
C1_LiveSetIsRegisteredMinusUnregistered ==
  (~terminated /\ ~runLoopStopped) => {p \in Paths : InMap(p)} = regd

\* C2: when a register command ends with "Already watching path", every
\* path that had a watch point with an active kernel subscription before the
\* command still has that watch point, with its subscription active.
C2_DuplicateLeavesFirstRegistrationLive ==
  [][\A c \in 1..Len(cmds) :
       (Completes(c) /\ cmds[c].kind = "register"
          /\ cmds'[c].failure = "Already watching path")
       => \A p \in Paths :
            (InMap(p) /\ Subscribed(p))
              => (MapEntry(p)' = MapEntry(p) /\ Subscribed(p)')]_vars

\* C3: when a register command ends with a failure, every path of its batch
\* that the command added to the map has an active kernel subscription, and
\* for every other path of the batch the map holds what it held before.
C3_FailingBatchKeepsTheRest ==
  [][\A c \in 1..Len(cmds) :
       (Completes(c) /\ cmds[c].kind = "register" /\ cmds'[c].failure # "none")
       => \A p \in Range(cmds[c].paths) :
            IF ~InMap(p) /\ InMap(p)' THEN Subscribed(p)'
            ELSE MapEntry(p)' = MapEntry(p)]_vars

\* C4: an executed unregister command returned false exactly when one of its
\* paths had no watch point when the command came to it.
C4_UnregisterReturnsFalseIffMissing ==
  \A c \in 1..Len(cmds) :
    (cmds[c].kind = "unregister" /\ cmds[c].cst = "done")
      => (cmds[c].result = "false" <=> cmds[c].missing)

(***************************************************************************)
(* Lifecycle and the command queue (C5 - C10).                             *)
(***************************************************************************)
\* C5: no change, overflow or unknown event was delivered to the callback
\* before start_watcher returned or after terminate returned.
C5_NoEventOutsideLifetime ==
  \A i \in 1..Len(events) :
    IsChange(events[i]) => (~events[i].early /\ ~events[i].late)

\* An event was delivered while the worker was shutting down, and terminate
\* has returned since.
C5_Witness ==
  /\ TerminateReturned
  /\ \E i \in 1..Len(events) : IsChange(events[i])
  /\ \E c \in 1..Len(cmds) : cmds[c].kind = "register" /\ cmds[c].sst = "ok"

\* C6: the worker is inside the execution of at most one command.
C6_OneCommandAtATime ==
  Cardinality({i \in 1..Len(stack) : stack[i].k = "cmd"}) <= 1

\* C7: the worker begins the commands in the order they were enqueued, each
\* at most once: the k-th command begun is the k-th command enqueued.
C7_FifoAtMostOnce ==
  \A i \in 1..Len(execLog) : execLog[i] = i

\* Two commands were begun in turn while a third already waits in the queue.
C7_Witness ==
  Len(execLog) >= 2 /\ commands # <<>>

WorkerStopped ==
  \/ wpc \in {"exiting", "exited", "deadlock"}
  \/ runLoopStopped
  \/ terminated

\* C9: a command whose submitter timed out is still taken from the queue
\* and begun by the worker, unless the worker stops before.
C9_TimedOutCommandStillExecuted ==
  \A c \in 1..MaxCmds :
    (IF c <= Len(cmds) THEN cmds[c].sst = "timeout" ELSE FALSE)
      ~> (IF c <= Len(cmds) THEN cmds[c].cst # "queued" \/ WorkerStopped ELSE FALSE)

\* A command was executed after its submitter had given up waiting.
C9_Witness ==
  \E c \in 1..Len(cmds) :
    cmds[c].sst = "timeout" /\ cmds[c].cst = "done" /\ ~WorkerStopped

\* C10: a command that the worker is through with is marked executed, its
\* failure slot holds exactly what perform() raised, and its completion was
\* signalled once; no other command was signalled or has a failure.
C10_FailureCapturedSignalledOnce ==
  \A c \in 1..Len(cmds) :
    /\ (c \in Range(execLog) /\ \A i \in 1..Len(stack) : stack[i].id # c)
         => cmds[c].cst = "done"
    /\ cmds[c].cst = "done"
         => (cmds[c].notifyCount = 1 /\ cmds[c].failure = cmds[c].raised)
    /\ cmds[c].cst # "done"
         => (cmds[c].notifyCount = 0 /\ cmds[c].failure = "none")

\* A command failed on the worker, and the worker went on to the next one.
C10_Witness ==
  \E c \in 1..Len(cmds) :
    /\ cmds[c].cst = "done" /\ cmds[c].failure # "none"
    /\ Len(execLog) > c

(***************************************************************************)
(* Scenarios and algebraic properties (C11, C12, C18).                     *)
(***************************************************************************)
\* The callback received INVALIDATED for the root.
Invalidated(p) ==
  \E j \in 1..Len(events) : events[j].kind = "INVALIDATED" /\ events[j].path = p

\* C11: an executed unregister command that found a watch point for each of
\* its paths, one of them a root that was deleted and for which INVALIDATED
\* was delivered, returned true.
C11_UnregisterAfterInvalidationReturnsTrue ==
  \A c \in 1..Len(cmds) :
    (cmds[c].kind = "unregister" /\ cmds[c].cst = "done" /\ ~cmds[c].missing
       /\ \E p \in Range(cmds[c].paths) : ~isDir[p] /\ Invalidated(p))
      => cmds[c].result = "true"

C18_NoCommandBeginsInsideCallback ==
  [][execLog' # execLog => ~InFrame("cb")]_vars

\* A command was submitted while the callback of an event was in progress.
C18_Witness ==
  InFrame("cb") /\ commands # <<>>

(***************************************************************************)
(* Windows roots of every path format and buffers of every action (C13,    *)
(* C17, C22).  The watcher is the Windows one; a single register command   *)
(* takes one root out of WinRootMenu, the kernel completes the read with a *)
(* buffer out of WinActionBuffers or with an empty one, and a terminate    *)
(* command may follow.                                                     *)
(***************************************************************************)
LongTail == [i \in 1..MaxShortPathLength |-> "d"]
LocalRoot == <<"C", ":", BackSlash>> \o LongTail
UncRoot == <<BackSlash, BackSlash, "s", BackSlash>> \o LongTail
WinRootMenu ==
  { LocalRoot,
    UncRoot,
    LongPathPrefix \o LocalRoot,
    UncLongPathPrefix \o SubSeq(UncRoot, 3, Len(UncRoot)),
    SubSeq(LocalRoot, 1, MaxShortPathLength),
    SubSeq(LocalRoot, 1, MaxShortPathLength + 1),
    <<"C", ":", BackSlash, "d">>,
    LongTail \o <<"d">> }
WinRootKeys == {convertToLongPathIfNeeded(p) : p \in WinRootMenu}

FILE_ACTIONS ==
  {"FILE_ACTION_ADDED", "FILE_ACTION_REMOVED", "FILE_ACTION_MODIFIED",
   "FILE_ACTION_RENAMED_OLD_NAME", "FILE_ACTION_RENAMED_NEW_NAME", "FILE_ACTION_OTHER"}
WinActionBuffers ==
  {<<[action |-> a, name |-> ChildName]>> : a \in FILE_ACTIONS}
    \cup {<<[action |-> "FILE_ACTION_RENAMED_OLD_NAME", name |-> ChildName],
            [action |-> "FILE_ACTION_RENAMED_NEW_NAME", name |-> ChildName]>>}

InitWinEvents ==
  /\ engine = "win"
  /\ wpc = "init"
  /\ stack = <<>>
  /\ commands = <<>>
  /\ cmds = <<>>
  /\ execLog = <<>>
  /\ events = <<>>
  /\ fsBudget = MaxFsEvents
  /\ regd = {}
  /\ watchPointsMac = [p \in Paths |-> "none"]
  /\ eventStream = NullStream
  /\ lastSeenEventId = kFSEventStreamEventIdSinceNow
  /\ finishedProcessingHistoricalEvents = FALSE
  /\ sourceSignalled = FALSE
  /\ runLoopStopped = FALSE
  /\ macPending = <<>>
  /\ nextEventId = 1
  /\ watchPoints = [p \in WinRootKeys |-> 0]
  /\ wps = <<>>
  /\ apcQueue = <<>>
  /\ terminated = FALSE
  /\ isDir = [p \in WinRootKeys |-> TRUE]
  /\ useAfterFree = FALSE

NextWinEvents ==
  \/ StartWatcher
  \/ \E s \in Submitters, root \in WinRootMenu :
       /\ cmds = <<>>
       /\ Submit(s, [kind |-> "register", paths |-> <<root>>])
  \/ \E s \in Submitters :
       /\ Len(cmds) = 1
       /\ Submit(s, [kind |-> "terminate", paths |-> <<>>])
  \/ WinApcCommand
  \/ WinRegister
  \/ WinTerminate
  \/ \E i \in 1..Len(wps) : \E entries \in WinActionBuffers \cup {<<>>} :
       WinFsChange(i, entries)
  \/ WinApcCompletion
  \/ CallbackReturn
  \/ WinApcReturn
  \/ WinRunLoopExit
  \/ WinThreadExit
  \/ \E i \in 1..Len(wps) : KernelAbort(i)

SpecWinEvents == InitWinEvents /\ [][NextWinEvents]_vars

\* The step is the completion routine handling a buffer of changes of a
\* watch point that is in the map and listens.
HandlesBuffer ==
  /\ apcQueue # <<>> /\ apcQueue' = Tail(apcQueue)
  /\ Head(apcQueue).t = "io" /\ Head(apcQueue).err = "SUCCESS"
  /\ Head(apcQueue).entries # <<>>
  /\ wps[Head(apcQueue).wp].alive
  /\ wps[Head(apcQueue).wp].status = "LISTENING"
  /\ ~terminated
HandledRoot == wps[Head(apcQueue).wp].user
HandledEntries == Head(apcQueue).entries

\* C13: for every root P longer than 240 characters that was registered,
\* the event of each entry of a buffer carries P, a backslash and the
\* entry's name.
C13_LongRootEventsCarryRegisteredPath ==
  [][(HandlesBuffer /\ Len(HandledRoot) > MaxShortPathLength)
       => /\ Len(events') >= Len(events) + Len(HandledEntries)
          /\ \A j \in 1..Len(HandledEntries) :
               events'[Len(events) + j].path
                 = HandledRoot \o <<BackSlash>> \o HandledEntries[j].name]_vars

\* The kind the interface documents for a change action
KindOfAction(action) ==
  CASE action = "FILE_ACTION_ADDED" -> "CREATED"
    [] action = "FILE_ACTION_RENAMED_NEW_NAME" -> "CREATED"
    [] action = "FILE_ACTION_REMOVED" -> "REMOVED"
    [] action = "FILE_ACTION_RENAMED_OLD_NAME" -> "REMOVED"
    [] action = "FILE_ACTION_MODIFIED" -> "MODIFIED"
    [] OTHER -> "UNKNOWN"

\* C17: the completion routine reports exactly one change per entry of the
\* buffer, in order: CREATED for ADDED and RENAMED_NEW_NAME, REMOVED for
\* REMOVED and RENAMED_OLD_NAME, MODIFIED for MODIFIED, UNKNOWN otherwise.
C17_OneChangePerEntryWithMappedKind ==
  [][HandlesBuffer
       => /\ Len(events') >= Len(events) + Len(HandledEntries)
          /\ SubSeq(events', 1, Len(events)) = events
          /\ \A j \in 1..Len(HandledEntries) :
               events'[Len(events) + j].kind = KindOfAction(HandledEntries[j].action)
          /\ Len(events') <= Len(events) + Len(HandledEntries)
                               + (IF isDir[wps[Head(apcQueue).wp].path] THEN 0 ELSE 1)]_vars

\* A buffer of two entries, the two names of a rename, was handled.
C17_Witness ==
  /\ Len(events) = 2
  /\ events[1].kind = "REMOVED" /\ events[2].kind = "CREATED"

(***************************************************************************)
(* macOS events of every flag set (C14, C15, C16).  The watcher is the     *)
(* macOS one; a single register command takes PathA, and the stream then   *)
(* delivers an event for a child of it with any set of the flags that      *)
(* Server::handleEvent looks at, a flag of the ignore set and a flag that   *)
(* the code does not know, or the deletion of the root.                    *)
(***************************************************************************)
MacEventFlags ==
  {"MustScanSubDirs", "Mount", "Unmount", "ItemRenamed", "ItemModified",
   "ItemRemoved", "ItemInodeMetaMod", "ItemFinderInfoMod", "ItemChangeOwner",
   "ItemXattrMod", "ItemCreated", "ItemIsFile", "FutureFlag"}
MacFlagMenu(root) ==
  {[path |-> root \o <<"/">> \o ChildName, flags |-> f] : f \in SUBSET MacEventFlags}
    \cup {[path |-> root, flags |-> {"RootChanged"}]}

InitMacFlags == Init /\ engine = "mac"

NextMacFlags ==
  \/ StartWatcher
  \/ \E s \in Submitters :
       /\ cmds = <<>>
       /\ Submit(s, [kind |-> "register", paths |-> <<PathA>>])
  \/ MacAcceptTrigger
  \/ MacPerform
  \/ \E raw \in MacFlagMenu(PathA) : MacFsEvent(PathA, raw)
  \/ MacDeliver
  \/ CallbackReturn

SpecMacFlags == InitMacFlags /\ [][NextMacFlags]_vars

\* The step is the stream's callback handling the one event it holds, after
\* the historical events ended.
HandlesEvent ==
  /\ Len(macPending) = 1 /\ macPending' = <<>>
  /\ finishedProcessingHistoricalEvents
HandledFlags == macPending[1].flags
HandledPath == macPending[1].path

\* C14: an event that carries Mount or Unmount, either one alone, and not
\* MustScanSubDirs is reported as INVALIDATED.
C14_MountOrUnmountIsInvalidated ==
  [][(/\ HandlesEvent
      /\ HandledFlags \cap {"Mount", "Unmount"} # {}
      /\ "MustScanSubDirs" \notin HandledFlags)
       => events' = Append(events, Callback("INVALIDATED", HandledPath))]_vars

\* C15: an event that carries any one of InodeMetaMod, FinderInfoMod,
\* ChangeOwner, XattrMod and none of MustScanSubDirs, Mount, Unmount,
\* ItemRenamed, ItemModified, ItemRemoved is reported as MODIFIED.
C15_AnyMetadataFlagIsModified ==
  [][(/\ HandlesEvent
      /\ HandledFlags \cap {"ItemInodeMetaMod", "ItemFinderInfoMod",
                             "ItemChangeOwner", "ItemXattrMod"} # {}
      /\ HandledFlags \cap {"MustScanSubDirs", "Mount", "Unmount", "ItemRenamed",
                             "ItemModified", "ItemRemoved"} = {})
       => events' = Append(events, Callback("MODIFIED", HandledPath))]_vars

\* C16: an event whose flags all lie in the ignore set makes no callback;
\* every other event makes exactly one callback, a change of a canonical
\* kind, an overflow or an unknown event, never an error.
C16_IgnoredDroppedElseOneCallback ==
  [][HandlesEvent
       => IF HandledFlags \subseteq IGNORED_FLAGS
          THEN events' = events
          ELSE /\ Len(events') = Len(events) + 1
               /\ SubSeq(events', 1, Len(events)) = events
               /\ events'[Len(events')].path = HandledPath
               /\ events'[Len(events')].kind
                    \in {"CREATED", "REMOVED", "MODIFIED", "INVALIDATED",
                         "overflow", "unknown"}]_vars

\* An event whose flags lie in the ignore set was handled and dropped.
C16_Witness ==
  /\ engine = "mac" /\ eventStream.open
  /\ macPending = <<>> /\ nextEventId > 1
  /\ events = <<>>

(***************************************************************************)
(* Status and kernel resources of the Windows watch points (C19, C20).     *)
(***************************************************************************)
\* The transitions the interface lists
ListedTransitions ==
  {<<"NOT_LISTENING", "LISTENING">>, <<"LISTENING", "CANCELLED">>,
   <<"CANCELLED", "FINISHED">>, <<"LISTENING", "FINISHED">>,
   <<"NOT_LISTENING", "FINISHED">>}

\* The status changes a step makes to the watch points that exist
StatusChanges ==
  {<<wps[i].status, wps'[i].status>> :
     i \in {j \in 1..Len(wps) : wps'[j].status # wps[j].status}}

\* C19 as stated: every change of a watch point's status is one of the
\* listed transitions.
C19_OnlyListedTransitions ==
  [][StatusChanges \subseteq ListedTransitions]_vars

\* C19, amended: every change of a watch point's status is one of the
\* listed transitions or LISTENING to NOT_LISTENING, which the completion
\* routine makes when it takes a completed read; a watch point is created
\* LISTENING or FINISHED.
C19_ListedTransitionsOrHandling ==
  [][/\ StatusChanges \subseteq
          ListedTransitions \cup {<<"LISTENING", "NOT_LISTENING">>}
     /\ \A i \in Len(wps) + 1 .. Len(wps') :
          wps'[i].status \in {"LISTENING", "FINISHED"}]_vars

\* A watch point that listened, is not destroyed and is NOT_LISTENING.
C19_Witness ==
  \E i \in 1..Len(wps) : wps[i].alive /\ wps[i].status = "NOT_LISTENING"

\* The completion of a read of watch point i is queued for the worker.
CompletionQueued(i) ==
  Cardinality({k \in 1..Len(apcQueue) :
                 apcQueue[k].t = "io" /\ apcQueue[k].wp = i}) = 1

\* C20 as stated: every watch point whose status is LISTENING has its
\* handle open and exactly one read pending.
C20_ListeningHasPendingRead ==
  \A i \in 1..Len(wps) :
    (wps[i].alive /\ wps[i].status = "LISTENING")
      => wps[i].handle = "open" /\ wps[i].io = "pending"

\* C20, amended: every watch point whose status is LISTENING has its handle
\* open and either one read pending or one completed read whose completion
\* routine is queued and has not run yet.
C20_ListeningHasReadOrQueuedCompletion ==
  \A i \in 1..Len(wps) :
    (wps[i].alive /\ wps[i].status = "LISTENING")
      => /\ wps[i].handle = "open"
         /\ \/ wps[i].io = "pending" /\ ~CompletionQueued(i)
            \/ wps[i].io = "none" /\ CompletionQueued(i)

\* A listening watch point whose read completed and whose completion
\* routine is still queued.
C20_Witness ==
  \E i \in 1..Len(wps) :
    /\ wps[i].alive /\ wps[i].status = "LISTENING"
    /\ wps[i].io = "none" /\ CompletionQueued(i)

(***************************************************************************)
(* Completions of a read on Windows (C21, C22, C23, C29).                  *)
(***************************************************************************)
\* The step is the completion routine running for a watch point that exists
\* and listens; Completed is that watch point, before and after the step.
HandlesCompletion ==
  /\ apcQueue # <<>> /\ apcQueue' = Tail(apcQueue)
  /\ Head(apcQueue).t = "io"
  /\ wps[Head(apcQueue).wp].alive
  /\ wps[Head(apcQueue).wp].status = "LISTENING"
Completion == Head(apcQueue)
Completed == wps[Head(apcQueue).wp]
CompletedAfter == wps'[Head(apcQueue).wp]

\* C21: a completion with ACCESS_DENIED for a root that is no longer a
\* directory reports REMOVED for the root and nothing else, and leaves the
\* watch point FINISHED.
C21_DeletedRootReportsRemovedOnly ==
  [][(/\ HandlesCompletion
      /\ Completion.err = "ACCESS_DENIED"
      /\ ~isValidDirectory(Completed.path))
       => /\ events' = Append(events, Callback("REMOVED", Completed.path))
          /\ CompletedAfter.status = "FINISHED"]_vars

\* What a successful completion is to do: after an overflow, INVALIDATED for
\* the root, FINISHED and no read; after a buffer of entries, one report per
\* entry in the order of the buffer, then the read armed again and
\* LISTENING (or, when the root is gone by then, REMOVED and FINISHED).
OverflowHandled ==
  /\ events' = Append(events, Callback("INVALIDATED", Completed.path))
  /\ CompletedAfter.status = "FINISHED"
  /\ CompletedAfter.io = "none"
EndsWith(path, name) ==
  /\ Len(path) >= Len(name)
  /\ SubSeq(path, Len(path) - Len(name) + 1, Len(path)) = name
EntriesReported ==
  /\ Len(events') >= Len(events) + Len(Completion.entries)
  /\ SubSeq(events', 1, Len(events)) = events
  /\ \A j \in 1..Len(Completion.entries) :
       /\ events'[Len(events) + j].kind = KindOfAction(Completion.entries[j].action)
       /\ EndsWith(events'[Len(events) + j].path, Completion.entries[j].name)
EntriesHandled ==
  /\ EntriesReported
  /\ IF isValidDirectory(Completed.path)
     THEN /\ Len(events') = Len(events) + Len(Completion.entries)
          /\ CompletedAfter.status = "LISTENING"
          /\ CompletedAfter.io = "pending"
     ELSE /\ events' = Append(SubSeq(events', 1, Len(events') - 1),
                              Callback("REMOVED", Completed.path))
          /\ Len(events') = Len(events) + Len(Completion.entries) + 1
          /\ CompletedAfter.status = "FINISHED"

InitWinErrors == Init /\ engine = "win"

NextWinErrors ==
  \/ StartWatcher
  \/ \E s \in Submitters, m \in CommandMenu : Submit(s, m)
  \/ WinApcCommand
  \/ WinApcCompletion
  \/ CallbackReturn
  \/ WinApcReturn
  \/ WinRegister
  \/ WinTerminate
  \/ WinUnregisterPath
  \/ WinUnregisterDone
  \/ WinRunLoopExit
  \/ WinThreadExit
  \/ \E i \in 1..Len(wps) : \E entries \in WinBufferMenu : WinFsChange(i, entries)
  \/ \E i \in 1..Len(wps) : WinFsError(i)
  \/ \E i \in 1..Len(wps) : KernelAbort(i)

SpecWinErrors == InitWinErrors /\ [][NextWinErrors]_vars

\* C23: a completion of a listening watch point that reports an I/O error
\* other than the aborted code leaves the watch point FINISHED.
C23_IoErrorFinishesWatchPoint ==
  [][(HandlesCompletion /\ Completion.err = "IO_ERROR")
       => CompletedAfter.status = "FINISHED"]_vars

(***************************************************************************)
(* Lifetime of the completion context on Windows (C24).                    *)
(***************************************************************************)
\* C24: no completion routine runs for a watch point that has been
\* destroyed.
C24_NoCompletionForDestroyedWatchPoint == ~useAfterFree

MaxHistoryEvents == 2

InitMacHistory ==
  /\ engine = "mac"
  /\ wpc = "init"
  /\ stack = <<>>
  /\ commands = <<>>
  /\ cmds = <<>>
  /\ execLog = <<>>
  /\ events = <<>>
  /\ fsBudget = MaxHistoryEvents
  /\ regd = {}
  /\ watchPointsMac = [p \in Paths |-> "none"]
  /\ eventStream = NullStream
  /\ lastSeenEventId = kFSEventStreamEventIdSinceNow
  /\ finishedProcessingHistoricalEvents = FALSE
  /\ sourceSignalled = FALSE
  /\ runLoopStopped = FALSE
  /\ macPending = <<>>
  /\ nextEventId = 1
  /\ watchPoints = [p \in Paths |-> 0]
  /\ wps = <<>>
  /\ apcQueue = <<>>
  /\ terminated = FALSE
  /\ isDir = [p \in Paths |-> TRUE]
  /\ useAfterFree = FALSE

HistoryCommandMenu ==
  CommandMenu \cup {[kind |-> "register", paths |-> <<PathB>>]}

NextMacHistory ==
  \/ StartWatcher
  \/ \E s \in Submitters, m \in HistoryCommandMenu : Submit(s, m)
  \/ MacAcceptTrigger
  \/ MacPerform
  \/ MacDeliver
  \/ CallbackReturn
  \/ \E root \in Paths : \E raw \in MacRawMenu(root) : MacFsEvent(root, raw)
  \/ \E root \in Paths : \E raw \in MacRawMenu(root) : MacReplayedEvent(root, raw)
  \/ MacRunLoopExit

SpecMacHistory == InitMacHistory /\ [][NextMacHistory]_vars

\* C26: lastSeenEventId never decreases once it holds the id of an event.
C26_LastSeenEventIdNeverDecreases ==
  [][lastSeenEventId # kFSEventStreamEventIdSinceNow
       => lastSeenEventId' >= lastSeenEventId]_vars

\* The path is the root or lies under it.
Under(path, root) == path = root \/ StartsWith(path, root \o <<"/">>)

\* The events of the step's batch that are handled as historical ones:
\* those that come before the HistoryDone sentinel.
ReplayedIndexes ==
  {k \in 1..Len(macPending) :
     /\ ~finishedProcessingHistoricalEvents
     /\ \A j \in 1..k : ~IS_SET(macPending[j].flags, {"HistoryDone"})}

\* C27: while a watch point is NEW, no event for its root or for a path
\* under its root is reported.
C27_NoEventForNewWatchPoint ==
  [][(macPending # <<>> /\ macPending' = <<>>)
       => \A k \in ReplayedIndexes :
            (\E p \in Paths : /\ watchPointsMac[p] = "NEW"
                              /\ Under(macPending[k].path, p))
              => \A j \in Len(events) + 1 .. Len(events') :
                   events'[j].path # macPending[k].path]_vars

(***************************************************************************)
(* Errors raised while an event is dispatched (C28).                       *)
(***************************************************************************)
\* Watch point i can still have changes delivered: a read is pending on
\* it, or the completion of one is queued for the worker.
Receiving(i) ==
  \/ wps[i].io \in {"pending", "cancelling"}
  \/ CompletionQueued(i)

\* C28: after an error raised while an event was dispatched, the worker
\* goes on and the watch points that are still registered still have their
\* later events processed: while the server is not terminated, every watch
\* point of the map that has not finished can receive changes.
C28_RegisteredWatchPointsStillReceive ==
  \A p \in DOMAIN watchPoints :
    (/\ engine = "win" /\ ~terminated
     /\ watchPoints[p] # 0
     /\ wps[watchPoints[p]].status # "FINISHED")
      => Receiving(watchPoints[p])

(***************************************************************************)
(* Completions handled after terminate (C29).                              *)
(***************************************************************************)
\* C29: once terminated is set, the completion routine reports no change
\* for any completion it handles.
C29_NoChangeReportedAfterTerminated ==
  [][(HandlesCompletion /\ terminated)
       => \A j \in Len(events) + 1 .. Len(events') : ~IsChange(events'[j])]_vars

(***************************************************************************)
(* The macOS stream and the watch-point map (C30).                         *)
(***************************************************************************)
WatchedMac == {p \in Paths : watchPointsMac[p] # "none"}

\* C30: whenever the macOS worker is between commands, the stream is open
\* exactly when the map is not empty, and it was created over the paths of
\* the map.
C30_StreamOpenIffMapNonEmpty ==
  (engine = "mac" /\ wpc = "loop" /\ stack = <<>> /\ ~runLoopStopped)
    => /\ eventStream.open <=> WatchedMac # {}
       /\ eventStream.open => eventStream.paths = WatchedMac

(***************************************************************************)
(* Directory handles of the Windows watch points (C31).                    *)
(***************************************************************************)
\* No read of watch point i is in flight and no completion of one is queued.
NothingOutstanding(i) ==
  /\ wps[i].io = "none"
  /\ \A k \in 1..Len(apcQueue) : ~(apcQueue[k].t = "io" /\ apcQueue[k].wp = i)

\* C31: once a watch point is gone and nothing of it is outstanding, its
\* directory handle has been closed.
C31_NoHandleOpenOnceWatchPointGone ==
  \A i \in 1..Len(wps) :
    (~wps[i].alive /\ NothingOutstanding(i)) => wps[i].handle = "closed"

====
